---- MODULE Spec2Model ----
(***************************************************************************)
(* Model of src/app.py, the Streamlit "Interactive Distribution Explorer". *)
(*                                                                         *)
(* The script is re-executed top to bottom by the host framework each time *)
(* a sidebar slider changes.  One execution reads the four sliders, draws  *)
(* a sample, computes the sample statistics, builds the figure (histogram, *)
(* density curve, mean/median markers, title) and displays it together     *)
(* with four metrics and the parameter explanations.                       *)
(*                                                                         *)
(* Numbers.  Every real quantity of the script (alpha, xi, omega, the data *)
(* and everything derived from them) is held in TENTHS: the integer 25     *)
(* stands for 2.5.  Statistics that are not multiples of a tenth are exact *)
(* fractions <<num, den>> of tenths, den > 0, in lowest terms.             *)
(***************************************************************************)
EXTENDS Integers, Sequences, FiniteSets

(***************************************************************************)
(* Bounds of the exploration (not program constants).                      *)
(***************************************************************************)
\* A slider is moved only to positions at most Reach steps away from its
\* minimum, its default or its maximum.
Reach == 1
\* Number of slider changes explored in one session.
MaxChanges == 1
\* Largest magnitude of a standard variate drawn by the sampler, in whole
\* standard units.  It exceeds the 4 of the xi -+ 4*omega window, so samples
\* reach outside that window as well as inside it.
MaxZ == 5

(***************************************************************************)
(* Program constants: the sliders' min_value, max_value, value and step,   *)
(* in tenths for the three real-valued sliders.                            *)
(***************************************************************************)
N_min_value == 100
N_max_value == 10000
N_value == 2000
N_step == 100
Alpha_min_value == -100
Alpha_max_value == 100
Alpha_value == 0
Alpha_step == 1
Xi_min_value == -100
Xi_max_value == 100
Xi_value == 0
Xi_step == 1
Omega_min_value == 1
Omega_max_value == 100
Omega_value == 10
Omega_step == 1
\* np.linspace(x_min, x_max, 500)
NumPdfPoints == 500
\* loc_param -+ 4*scale_param
WindowHalfWidth == 4

(***************************************************************************)
(* Exact arithmetic on fractions <<num, den>>.                             *)
(***************************************************************************)
Abs(x) == IF x < 0 THEN -x ELSE x

Sign(x) == IF x < 0 THEN -1 ELSE IF x > 0 THEN 1 ELSE 0

RECURSIVE GCD(_, _)
GCD(a, b) == IF b = 0 THEN a ELSE GCD(b, a % b)

\* The fraction n/d (d # 0) in lowest terms with a positive denominator.
Frac(n, d) ==
    LET g == GCD(Abs(n), Abs(d))
        s == IF d < 0 THEN -1 ELSE 1
    IN  <<(s * n) \div g, (s * d) \div g>>

FracOfInt(x) == <<x, 1>>

FracLe(p, q) == p[1] * q[2] <= q[1] * p[2]

RECURSIVE SumOver(_, _)
\* Sum of f[v] over the finite set S.
SumOver(f, S) ==
    IF S = {} THEN 0
    ELSE LET v == CHOOSE u \in S : TRUE
         IN  f[v] + SumOver(f, S \ {v})

RECURSIVE GCDOver(_, _)
\* Greatest common divisor of f[v], v in S (0 for the empty set).
GCDOver(f, S) ==
    IF S = {} THEN 0
    ELSE LET v == CHOOSE u \in S : TRUE
         IN  GCD(Abs(f[v]), GCDOver(f, S \ {v}))

(***************************************************************************)
(* The sliders (src/app.py:25-63).                                         *)
(***************************************************************************)
\* The values a slider with the given min_value, max_value and step can
\* return: min_value + k*step, never above max_value.
SliderValues(lo, hi, step) == {lo + k * step : k \in 0 .. ((hi - lo) \div step)}

\* The positions of a slider the exploration moves it to.
Explored(lo, hi, dflt, step) ==
    {v \in SliderValues(lo, hi, step) :
        \/ Abs(v - lo) <= Reach * step
        \/ Abs(v - dflt) <= Reach * step
        \/ Abs(v - hi) <= Reach * step}

NSliderValues == Explored(N_min_value, N_max_value, N_value, N_step)

SkewSliderValues == Explored(Alpha_min_value, Alpha_max_value, Alpha_value, Alpha_step)

LocSliderValues == Explored(Xi_min_value, Xi_max_value, Xi_value, Xi_step)

\* Variant: the scale slider starts at 0 instead of 0.1.
ScaleSliderValues_FromZero == Explored(0, Omega_max_value, Omega_value, Omega_step)

ScaleSliderValues == Explored(Omega_min_value, Omega_max_value, Omega_value, Omega_step)

(***************************************************************************)
(* Arrays.  The arrays of the script have 100 to 10000 elements.  The      *)
(* model draws them from the periodic arrays and holds such an array as    *)
(* its length and one period: element i (from 1) of [size |-> n,           *)
(* cycle |-> c] is c[((i - 1) % Len(c)) + 1].                              *)
(***************************************************************************)
ArrayLen(data) == data.size

\* Number of indices i in 1..size that fall on position j of the period.
Occurrences(data, j) ==
    IF j > data.size THEN 0 ELSE ((data.size - j) \div Len(data.cycle)) + 1

ValuesOf(data) ==
    {data.cycle[j] : j \in {k \in DOMAIN data.cycle : Occurrences(data, k) > 0}}

\* Number of elements of data whose value is in the set S.
CountIn(data, S) ==
    LET J == {j \in DOMAIN data.cycle : data.cycle[j] \in S}
    IN  SumOver([j \in J |-> Occurrences(data, j)], J)

\* [v |-> number of occurrences of v in data]
Frequencies(data) ==
    [v \in ValuesOf(data) |-> CountIn(data, {v})]

\* The frequencies divided by their common factor.
Weights(freq) ==
    LET g == GCDOver(freq, DOMAIN freq)
    IN  [v \in DOMAIN freq |-> freq[v] \div g]

\* ndarray.min() / ndarray.max()
ArrayMin(data) == CHOOSE v \in ValuesOf(data) : \A u \in ValuesOf(data) : v <= u

ArrayMax(data) == CHOOSE v \in ValuesOf(data) : \A u \in ValuesOf(data) : u <= v

(***************************************************************************)
(* The sampler (src/app.py:70).                                            *)
(***************************************************************************)
\* Standard variates the sampler's random source produces in the model.
StdVariates == {-MaxZ, -1, 2, MaxZ}

\* A draw of the random source: four standard variates, produced in turn
\* until size values are drawn.  One arrangement of each choice of four is
\* drawn (second <= fourth <= first <= third): nothing the script computes
\* from the sample depends on the order of its elements.
Draws ==
    {z \in StdVariates \X StdVariates \X StdVariates \X StdVariates :
        z[2] <= z[4] /\ z[4] <= z[1] /\ z[1] <= z[3]}

\* stats.skewnorm.rvs(a, loc, scale, size) for the draw z: a location-scale
\* family, each value is loc + scale * (standard variate).  scale is in
\* tenths and the variate in whole units, so the product is in tenths.
skewnorm_rvs(a, loc, scale, size, z) ==
    [size |-> size, cycle |-> [j \in DOMAIN z |-> loc + scale * z[j]]]

(***************************************************************************)
(* The sample statistics (src/app.py:73-76).                               *)
(*                                                                         *)
(* The sums over the sample are evaluated over its table of frequencies    *)
(* with the common factor of the counts removed: in exact arithmetic       *)
(* sum_i g(x_i) / N = sum_v w_v * g(v) / W, and the intermediate integers  *)
(* stay small.                                                             *)
(***************************************************************************)
\* np.mean(data): the sum of the elements divided by their number.
np_mean(data) ==
    LET w == Weights(Frequencies(data))
        V == DOMAIN w
    IN  Frac(SumOver([v \in V |-> w[v] * v], V), SumOver(w, V))

\* The sum of squared deviations from the mean divided by (N - ddof), as a
\* fraction of squared tenths.  With W = sum of weights and T = sum w_v*v,
\* the mean is T/W and sum_i (x_i - mean)^2 / N = sum_v w_v*(W*v - T)^2 / W^3;
\* dividing by N - ddof instead multiplies by N / (N - ddof).
Variance(data, ddof) ==
    LET w == Weights(Frequencies(data))
        V == DOMAIN w
        W == SumOver(w, V)
        T == SumOver([v \in V |-> w[v] * v], V)
        ss == Frac(SumOver([v \in V |-> w[v] * (W * v - T) * (W * v - T)], V), W * W * W)
        n == ArrayLen(data)
        k == Frac(n, n - ddof)
    IN  Frac(ss[1] * k[1], ss[2] * k[2])

\* Variant: the sample standard deviation, ddof = 1.
np_std_ddof1(data) == [sqrt_of |-> Variance(data, 1)]

\* np.std(data): sqrt(mean(abs(x - x.mean())**2)), ddof = 0 by default.
\* The value is the square root of the fraction held in field "sqrt_of".
np_std(data) == [sqrt_of |-> Variance(data, 0)]

\* Element k-1 (from 0) of the sorted data, k in 1..ArrayLen(data): the
\* k-th smallest element.
KthSmallest(data, k) ==
    CHOOSE v \in ValuesOf(data) :
        LET below == {u \in ValuesOf(data) : u < v}
        IN  CountIn(data, below) < k /\ k <= CountIn(data, below \cup {v})

\* Variant: the lower of the two middle elements for even length.
np_median_LowerMiddle(data) ==
    FracOfInt(KthSmallest(data, (ArrayLen(data) + 1) \div 2))

\* np.median(data): the middle element of the sorted data for odd length,
\* the mean of the two middle elements for even length.
np_median(data) ==
    LET n == ArrayLen(data)
    IN  IF n % 2 = 1
        THEN FracOfInt(KthSmallest(data, (n + 1) \div 2))
        ELSE Frac(KthSmallest(data, n \div 2) + KthSmallest(data, n \div 2 + 1), 2)

\* stats.skew(data) = m3 / m2^1.5 with m_k the k-th central moment: "nan"
\* for a constant sample (m2 = 0), otherwise a number with the sign of m3,
\* which is the part of the value the model keeps.  The deviations W*v - T
\* are divided by their common factor before they are cubed.
stats_skew(data) ==
    LET w == Weights(Frequencies(data))
        V == DOMAIN w
        W == SumOver(w, V)
        T == SumOver([v \in V |-> w[v] * v], V)
        d == [v \in V |-> W * v - T]
        g == GCDOver(d, V)
    IN  IF g = 0 THEN [sign |-> "nan"]
        ELSE [sign |-> Sign(SumOver([v \in V |->
                  w[v] * (d[v] \div g) * (d[v] \div g) * (d[v] \div g)], V))]

(***************************************************************************)
(* The density curve (src/app.py:92-95).                                   *)
(***************************************************************************)
\* Variant: the lower end of the x-range taken from the parameters alone.
Min2_Second(a, b) == b

\* Python's min(a, b) and max(a, b).
Min2(a, b) == IF b < a THEN b ELSE a

Max2(a, b) == IF b > a THEN b ELSE a

\* np.linspace returns start + arange(num)*step with the last element set
\* to stop.  Like the sample, the array is held by what determines it: its
\* length, first element, step and last element; LinspaceAt gives its
\* elements.

\* Variant: endpoint=False, step = (stop - start)/num and stop not included.
np_linspace_NoEndpoint(start, stop, num) ==
    LET step == Frac(stop - start, num)
    IN  [num |-> num, first |-> start, step |-> step,
         last |-> Frac(start * step[2] + (num - 1) * step[1], step[2])]

\* np.linspace(start, stop, num), num > 1: step = (stop - start)/(num - 1).
np_linspace(start, stop, num) ==
    [num |-> num, first |-> start, step |-> Frac(stop - start, num - 1),
     last |-> FracOfInt(stop)]

\* Element i (from 1) of a linspace array, a fraction (not reduced).
LinspaceAt(x, i) ==
    IF i = x.num THEN x.last
    ELSE <<x.first * x.step[2] + (i - 1) * x.step[1], x.step[2]>>

\* The keyword arguments of the sampler call (src/app.py:70) and of the
\* density call (src/app.py:95): which script value is bound to which role.
RvsKeywords(skew, loc, scale, n) == [a |-> skew, loc |-> loc, scale |-> scale, size |-> n]

\* Variant: location and scale exchanged in the density call.
PdfKeywords_Swapped(skew, loc, scale) == [a |-> skew, loc |-> scale, scale |-> loc]

PdfKeywords(skew, loc, scale) == [a |-> skew, loc |-> loc, scale |-> scale]

\* stats.skewnorm.pdf(x, a, loc, scale): the density is a function of its
\* arguments; the model keeps the application, not the transcendental values.
skewnorm_pdf(x, a, loc, scale) ==
    [fn |-> "skewnorm.pdf", npoints |-> x.num, a |-> a, loc |-> loc, scale |-> scale]

(***************************************************************************)
(* Formatting (src/app.py:108-146).                                        *)
(***************************************************************************)
RECURSIVE Pow10(_)
Pow10(d) == IF d = 0 THEN 1 ELSE 10 * Pow10(d - 1)

\* floor(n / d) for d > 0
FloorDiv(n, d) == IF n >= 0 THEN n \div d ELSE -((-n + d - 1) \div d)

\* f"{x:.<d>f}" for the fraction p of tenths, d >= 1: the decimal numeral
\* with d digits after the point nearest to x, a tie going to the even last
\* digit.  The numeral is held as its count of units of 10^-d.
FormatFixed(p, d) ==
    LET n == p[1] * Pow10(d - 1)
        q == FloorDiv(n, p[2])
        r == n - q * p[2]
        up == 2 * r > p[2] \/ (2 * r = p[2] /\ q % 2 = 1)
    IN  [decimals |-> d, units |-> IF up THEN q + 1 ELSE q]

\* Variant: the threshold taken as one slider step, abs(skew_param) <= 0.1.
distribution_name_of_Step(a) == IF Abs(a) * 10 <= 10 THEN "Normal" ELSE "Skew-Normal"

\* "Normal" if abs(skew_param) < 0.01 else "Skew-Normal"; skew_param is in
\* tenths and 0.01 is a tenth of a tenth.
distribution_name_of(a) == IF Abs(a) * 10 < 1 THEN "Normal" ELSE "Skew-Normal"

(***************************************************************************)
(* State.                                                                  *)
(***************************************************************************)
VARIABLES
    widgets,   \* the sliders' current values, kept by the host session
    pc,        \* position of the script execution
    changes,   \* slider changes made so far
    runs,      \* script executions started so far
    ns,        \* the script's namespace: the names bound so far in this execution
    calls,     \* keyword arguments of the stats.skewnorm calls of this execution
    page       \* the elements this execution has displayed

vars == <<widgets, pc, changes, runs, ns, calls, page>>

\* A namespace (or page, or call log) with nothing in it.
Empty == << >>

\* f with name bound to value.
Bind(f, name, value) ==
    [k \in DOMAIN f \cup {name} |-> IF k = name THEN value ELSE f[k]]

\* Variant: the density curve computed before the statistics.
ScriptOrder_DensityFirst ==
    <<"start", "sample", "plot", "stats", "decorate", "display", "done">>

\* The statements of the script in the order of the file: the sliders
\* (25-63), the sampler (70), the statistics (73-76), the figure with the
\* histogram and the density curve (79-103), the marker lines and the title
\* (106-124), the display (127-149).
ScriptOrder == <<"start", "sample", "stats", "plot", "decorate", "display", "done">>

\* The position that follows position p.
After(p) ==
    LET i == CHOOSE k \in DOMAIN ScriptOrder : ScriptOrder[k] = p
    IN  ScriptOrder[i + 1]

Init ==
    /\ widgets = [n |-> N_value, a |-> Alpha_value, loc |-> Xi_value, scale |-> Omega_value]
    /\ pc = "start"
    /\ changes = 0
    /\ runs = 1
    /\ ns = Empty
    /\ calls = Empty
    /\ page = Empty

\* Variant: the script's names survive from one execution to the next.
Rerun_KeepsNamespace ==
    /\ pc' = "start"
    /\ runs' = runs + 1
    /\ ns' = ns
    /\ calls' = Empty
    /\ page' = Empty

\* The host re-executes the script from the top: a new execution, with a
\* fresh namespace and an empty page.
Rerun ==
    /\ pc' = "start"
    /\ runs' = runs + 1
    /\ ns' = Empty
    /\ calls' = Empty
    /\ page' = Empty

\* The user moves one slider; the host stores the value and re-executes the
\* script.  The host runs an execution to its end before it takes the next
\* change.
ChangeSlider(name, values) ==
    /\ pc = "done"
    /\ changes < MaxChanges
    /\ \E v \in values :
        /\ v # widgets[name]
        /\ widgets' = [widgets EXCEPT ![name] = v]
    /\ changes' = changes + 1
    /\ Rerun

ChangeN == ChangeSlider("n", NSliderValues)

ChangeAlpha == ChangeSlider("a", SkewSliderValues)

ChangeXi == ChangeSlider("loc", LocSliderValues)

ChangeOmega == ChangeSlider("scale", ScaleSliderValues)

\* src/app.py:25-63: the four st.sidebar.slider calls return the widgets' values.
ReadSliders ==
    /\ pc = "start"
    /\ ns' = Bind(Bind(Bind(Bind(ns, "n_samples", widgets.n), "skew_param", widgets.a),
                        "loc_param", widgets.loc), "scale_param", widgets.scale)
    /\ pc' = After("start")
    /\ UNCHANGED <<widgets, changes, runs, calls, page>>

\* src/app.py:70
Sample ==
    /\ pc = "sample"
    /\ LET kw == RvsKeywords(ns.skew_param, ns.loc_param, ns.scale_param, ns.n_samples)
       IN  /\ calls' = Bind(calls, "rvs", kw)
           /\ \E z \in Draws :
                ns' = Bind(ns, "generated_data",
                           skewnorm_rvs(kw.a, kw.loc, kw.scale, kw.size, z))
    /\ pc' = After("sample")
    /\ UNCHANGED <<widgets, changes, runs, page>>

\* src/app.py:73-76
Stats ==
    /\ pc = "stats"
    /\ LET ns1 == Bind(ns, "sample_mean", np_mean(ns.generated_data))
           ns2 == Bind(ns1, "sample_std_dev", np_std(ns.generated_data))
           ns3 == Bind(ns2, "sample_skewness", stats_skew(ns.generated_data))
       IN  ns' = Bind(ns3, "sample_median", np_median(ns.generated_data))
    /\ pc' = After("stats")
    /\ UNCHANGED <<widgets, changes, runs, calls, page>>

\* src/app.py:79-103: the figure with the histogram of the sample, then the
\* x-range, the 500 points, the density at them, and the curve trace.
Plot ==
    /\ pc = "plot"
    /\ LET x_min == Min2(ArrayMin(ns.generated_data),
                         ns.loc_param - WindowHalfWidth * ns.scale_param)
           x_max == Max2(ArrayMax(ns.generated_data),
                         ns.loc_param + WindowHalfWidth * ns.scale_param)
           x_pdf == np_linspace(x_min, x_max, NumPdfPoints)
           kw == PdfKeywords(ns.skew_param, ns.loc_param, ns.scale_param)
           pdf_values == skewnorm_pdf(x_pdf, kw.a, kw.loc, kw.scale)
           fig == [traces |-> << [type |-> "Histogram", name |-> "Sample Data",
                                  x |-> ns.generated_data,
                                  histnorm |-> "probability density"],
                                 [type |-> "Scatter", name |-> "Theoretical PDF",
                                  x |-> x_pdf, y |-> pdf_values, mode |-> "lines"] >>,
                   vlines |-> << >>,
                   title |-> << >>]
       IN  /\ ns' = Bind(Bind(Bind(Bind(Bind(ns, "x_min", x_min), "x_max", x_max),
                                   "x_pdf", x_pdf), "pdf_values", pdf_values), "fig", fig)
           /\ calls' = Bind(calls, "pdf", kw)
    /\ pc' = After("plot")
    /\ UNCHANGED <<widgets, changes, runs, page>>

\* src/app.py:106-124: the mean and median lines and the title.
Decorate ==
    /\ pc = "decorate"
    /\ LET distribution_name == distribution_name_of(ns.skew_param)
           fig == [ns.fig EXCEPT
                     !.vlines = << [x |-> ns.sample_mean, line_dash |-> "dash",
                                    annotation |-> <<"Mean", FormatFixed(ns.sample_mean, 2)>>],
                                   [x |-> ns.sample_median, line_dash |-> "dot",
                                    annotation |-> <<"Median",
                                                     FormatFixed(ns.sample_median, 2)>>] >>,
                     !.title = [distribution_name |-> distribution_name,
                                alpha |-> FormatFixed(FracOfInt(ns.skew_param), 1),
                                xi |-> FormatFixed(FracOfInt(ns.loc_param), 1),
                                omega |-> FormatFixed(FracOfInt(ns.scale_param), 1)]]
       IN  ns' = Bind(Bind(ns, "distribution_name", distribution_name), "fig", fig)
    /\ pc' = After("decorate")
    /\ UNCHANGED <<widgets, changes, runs, calls, page>>

\* src/app.py:127-149: the chart, the four metrics and the explanations.
Display ==
    /\ pc = "display"
    /\ page' = [chart |-> ns.fig,
                metrics |-> [mean |-> FormatFixed(ns.sample_mean, 3),
                             median |-> FormatFixed(ns.sample_median, 3),
                             std_dev |-> ns.sample_std_dev,
                             skewness |-> ns.sample_skewness],
                explanations |-> [xi |-> FormatFixed(FracOfInt(ns.loc_param), 1),
                                  omega |-> FormatFixed(FracOfInt(ns.scale_param), 1),
                                  alpha |-> FormatFixed(FracOfInt(ns.skew_param), 1),
                                  n |-> ns.n_samples]]
    /\ pc' = After("display")
    /\ UNCHANGED <<widgets, changes, runs, ns, calls>>

Next ==
    \/ ChangeN
    \/ ChangeAlpha
    \/ ChangeXi
    \/ ChangeOmega
    \/ ReadSliders
    \/ Sample
    \/ Stats
    \/ Plot
    \/ Decorate
    \/ Display

Spec == Init /\ [][Next]_vars

(***************************************************************************)
(* Properties.                                                             *)
(***************************************************************************)
Has(f, name) == name \in DOMAIN f

InRange(x, lo, hi) == lo <= x /\ x <= hi

FracEq(p, q) == p[1] * q[2] = q[1] * p[2]

\* The one-decimal numeral of a value held in tenths.
OneDecimal(x) == [decimals |-> 1, units |-> x]

\* v is element k-1 (from 0) of the sorted data: fewer than k elements are
\* below it and at most ArrayLen - k are above it.
IsOrderStatistic(data, v, k) ==
    /\ CountIn(data, {u \in ValuesOf(data) : u < v}) <= k - 1
    /\ CountIn(data, {u \in ValuesOf(data) : u > v}) <= ArrayLen(data) - k

\* C1: the arguments of the sampler call and of the density call are within
\* the sliders' ranges: N in 100..10000, alpha and xi in [-10, 10], omega in
\* [0.1, 10] (tenths: -100..100 and 1..100); omega <= 0 reaches neither call.
C1_ArgumentsInRange ==
    /\ Has(calls, "rvs") =>
        /\ InRange(calls.rvs.size, 100, 10000)
        /\ InRange(calls.rvs.a, -100, 100)
        /\ InRange(calls.rvs.loc, -100, 100)
        /\ InRange(calls.rvs.scale, 1, 100)
        /\ calls.rvs.scale > 0
    /\ Has(calls, "pdf") =>
        /\ InRange(calls.pdf.a, -100, 100)
        /\ InRange(calls.pdf.loc, -100, 100)
        /\ InRange(calls.pdf.scale, 1, 100)
        /\ calls.pdf.scale > 0

\* An execution after the scale slider was moved to its minimum has called
\* the sampler and the density with omega = 0.1.
C1_Witness ==
    /\ changes > 0
    /\ Has(calls, "rvs") /\ Has(calls, "pdf")
    /\ calls.rvs.scale = 1 /\ calls.pdf.scale = 1

\* C2: the title's label is "Normal" exactly when |alpha| < 0.01 (tenths:
\* 100*|a| < 10), over the slider's values only at alpha = 0, and the default
\* inputs are labelled "Normal".
C2_RegimeLabel ==
    Has(ns, "distribution_name") =>
        /\ ns.fig.title.distribution_name = ns.distribution_name
        /\ ns.distribution_name \in {"Normal", "Skew-Normal"}
        /\ ns.distribution_name = "Normal" <=> 100 * Abs(ns.skew_param) < 10
        /\ ns.distribution_name = "Normal" <=> ns.skew_param = 0
        /\ (/\ ns.n_samples = 2000 /\ ns.skew_param = 0
            /\ ns.loc_param = 0 /\ ns.scale_param = 10) => ns.distribution_name = "Normal"

\* An execution with alpha = 0.1, the slider value nearest to 0, is titled
\* "Skew-Normal".
C2_Witness ==
    /\ Has(ns, "distribution_name")
    /\ ns.skew_param = 1
    /\ ns.fig.title.distribution_name = "Skew-Normal"

\* C3: x_min is the least and x_max the greatest of the sample's elements and
\* the window ends xi - 4*omega, xi + 4*omega; x_min < x_max; x_pdf has 500
\* points, the first x_min, the last x_max, consecutive ones (x_max - x_min)/499
\* apart.
C3_DensityDomain ==
    Has(ns, "x_pdf") =>
        LET data == ns.generated_data
            lo == ns.loc_param - 4 * ns.scale_param
            hi == ns.loc_param + 4 * ns.scale_param
            x == ns.x_pdf
        IN  /\ ns.x_min <= lo /\ \A v \in ValuesOf(data) : ns.x_min <= v
            /\ ns.x_min = lo \/ ns.x_min \in ValuesOf(data)
            /\ hi <= ns.x_max /\ \A v \in ValuesOf(data) : v <= ns.x_max
            /\ ns.x_max = hi \/ ns.x_max \in ValuesOf(data)
            /\ ns.x_min < ns.x_max
            /\ x.num = 500
            /\ FracEq(LinspaceAt(x, 1), <<ns.x_min, 1>>)
            /\ FracEq(LinspaceAt(x, 500), <<ns.x_max, 1>>)
            /\ \A i \in 1 .. 499 :
                LET p == LinspaceAt(x, i)
                    q == LinspaceAt(x, i + 1)
                IN  /\ (499 * p[1]) % p[2] = 0
                    /\ (499 * q[1]) % q[2] = 0
                    /\ ((499 * q[1]) \div q[2]) - ((499 * p[1]) \div p[2])
                         = ns.x_max - ns.x_min

\* The curve of a sample that reaches below the window on the left and stays
\* inside it on the right: x_min comes from the sample, x_max from the window.
C3_Witness ==
    /\ Has(ns, "x_pdf")
    /\ ns.x_min < ns.loc_param - 4 * ns.scale_param
    /\ ns.x_max = ns.loc_param + 4 * ns.scale_param
    /\ ns.x_max \notin ValuesOf(ns.generated_data)

\* C4: a slider change starts a new execution with nothing bound, called or
\* displayed, and a finished execution shows the sliders' current values and
\* the sample, statistics, curve and chart built in that execution.
C4_FreshRun ==
    /\ pc = "start" => ns = Empty /\ calls = Empty /\ page = Empty
    /\ pc = "done" =>
        /\ ns.n_samples = widgets.n /\ ns.skew_param = widgets.a
        /\ ns.loc_param = widgets.loc /\ ns.scale_param = widgets.scale
        /\ ArrayLen(ns.generated_data) = widgets.n
        /\ calls.rvs.size = widgets.n
        /\ page.explanations.n = widgets.n
        /\ page.chart = ns.fig
        /\ page.chart.traces[1].x = ns.generated_data
        /\ page.chart.traces[2].x = ns.x_pdf
        /\ page.chart.vlines[1].x = ns.sample_mean
        /\ LET c == ns.generated_data.cycle
           IN  ns.sample_mean = Frac(SumOver(c, DOMAIN c), Len(c))
        /\ page.metrics.std_dev = ns.sample_std_dev
        /\ page.metrics.skewness = ns.sample_skewness

\* The execution started by a change of N alone has finished.
C4_Witness ==
    /\ pc = "done"
    /\ changes = 1
    /\ widgets.n # 2000
    /\ page.explanations.n = widgets.n

\* C6: the density call gets the (a, loc, scale) of the sampler call of the
\* same execution, these are the sliders' current values, and the title and
\* the explanations show them to one decimal.
C6_SameParameters ==
    /\ Has(calls, "rvs") =>
        /\ calls.rvs.a = widgets.a
        /\ calls.rvs.loc = widgets.loc
        /\ calls.rvs.scale = widgets.scale
    /\ Has(calls, "pdf") =>
        /\ calls.pdf.a = calls.rvs.a
        /\ calls.pdf.loc = calls.rvs.loc
        /\ calls.pdf.scale = calls.rvs.scale
        /\ ns.pdf_values.a = calls.rvs.a
        /\ ns.pdf_values.loc = calls.rvs.loc
        /\ ns.pdf_values.scale = calls.rvs.scale
    /\ Has(ns, "distribution_name") =>
        /\ ns.fig.title.alpha = OneDecimal(calls.rvs.a)
        /\ ns.fig.title.xi = OneDecimal(calls.rvs.loc)
        /\ ns.fig.title.omega = OneDecimal(calls.rvs.scale)
    /\ Has(page, "explanations") =>
        /\ page.explanations.alpha = OneDecimal(calls.rvs.a)
        /\ page.explanations.xi = OneDecimal(calls.rvs.loc)
        /\ page.explanations.omega = OneDecimal(calls.rvs.scale)

\* A displayed execution after a change, with three different values for
\* alpha, xi and omega.
C6_Witness ==
    /\ pc = "done"
    /\ changes = 1
    /\ calls.pdf.a # calls.pdf.loc
    /\ calls.pdf.loc # calls.pdf.scale
    /\ calls.pdf.a # calls.pdf.scale

\* C7: N is a multiple of 100, hence even, and the median is the mean of
\* elements N/2 - 1 and N/2 (from 0) of the sorted sample.
C7_MedianOfEvenSample ==
    Has(ns, "sample_median") =>
        LET data == ns.generated_data
            n == ns.n_samples
        IN  /\ n % 100 = 0
            /\ n % 2 = 0
            /\ ArrayLen(data) = n
            /\ \E a \in ValuesOf(data), b \in ValuesOf(data) :
                /\ IsOrderStatistic(data, a, n \div 2)
                /\ IsOrderStatistic(data, b, (n \div 2) + 1)
                /\ 2 * ns.sample_median[1] = (a + b) * ns.sample_median[2]

\* The median of a sample whose two middle elements differ, so that it is
\* no element of the sample.
C7_Witness ==
    /\ Has(ns, "sample_median")
    /\ \A v \in ValuesOf(ns.generated_data) : <<v, 1>> # ns.sample_median

\* C8: the standard deviation is the square root of the population variance:
\* the sum of squared deviations from the mean divided by N, which equals
\* mean(x^2) - mean(x)^2.
C8_PopulationStdDev ==
    Has(ns, "sample_std_dev") =>
        LET w == Weights(Frequencies(ns.generated_data))
            V == DOMAIN w
            W == SumOver(w, V)
            T == SumOver([v \in V |-> w[v] * v], V)
            Q == SumOver([v \in V |-> w[v] * v * v], V)
        IN  ns.sample_std_dev.sqrt_of = Frac(W * Q - T * T, W * W)

\* The standard deviation of a sample of the smallest size that is not
\* constant.
C8_Witness ==
    /\ Has(ns, "sample_std_dev")
    /\ ns.n_samples = 100
    /\ ns.sample_std_dev.sqrt_of[1] > 0

C10_MarkersInDomain ==
    Has(ns, "distribution_name") =>
        \A i \in 1 .. 2 :
            /\ FracLe(<<ns.x_min, 1>>, ns.fig.vlines[i].x)
            /\ FracLe(ns.fig.vlines[i].x, <<ns.x_max, 1>>)

\* Both markers lie left of the window xi -+ 4*omega, inside the part of the
\* x-range that the sample adds.
C10_Witness ==
    /\ Has(ns, "distribution_name")
    /\ Len(ns.fig.vlines) = 2
    /\ \A i \in 1 .. 2 :
        ~FracLe(<<ns.loc_param - 4 * ns.scale_param, 1>>, ns.fig.vlines[i].x)

====
